---- MODULE Spec2Model ----
(***************************************************************************)
(* Model of the waybar-finance dashboard (sysScripts/waybar-finance):      *)
(*   - the crumb cache of network.rs (get_yahoo_crumb) and its callers,    *)
(*   - the application state of app.rs (App) and the event loop of ui.rs   *)
(*     (run_tui): producers, the channel, the consumer loop.               *)
(*   - the configuration files of config.rs (load_config, save_config).    *)
(* The specifications share the module: CrumbSpec runs the callers of the  *)
(* crumb cache, Spec runs the event loop under an editing session with the *)
(* upstream services down, FetchSpec under navigation and on-demand        *)
(* fetches that answer or fail (SlowQuoteSpec adds fairness to it), and    *)
(* ConfigSpec runs start-up, key entry, quit and restart on the            *)
(* configuration files.                                                    *)
(***************************************************************************)
EXTENDS Integers, Sequences, FiniteSets, TLC

VARIABLES
    \* ---- network.rs: the crumb cache and the tasks calling it
    YAHOO_CRUMB,    \* the cached crumb: None or Some(token)
    lock,           \* holder of the tokio Mutex: None or Some(caller)
    pc,             \* per caller: its position in get_yahoo_crumb
    ret,            \* per caller: the value its last call returned
    calls,          \* per caller: how many times it has called
    handshakes,     \* network: warm-up requests received by fc.yahoo.com
    callView,       \* per caller, at its last call: was another caller inside
                    \* get_yahoo_crumb (busy), was the cache empty (empty)
    \* ---- app.rs and ui.rs: the application and its event loop
    app,            \* the App struct, a record of its fields (None before the
                    \* first App::new)
    chan,           \* the unbounded mpsc channel of AppEvent, oldest first
    tasks,          \* the on-demand fetch tasks in flight, by slot
    searches,       \* the search tasks in flight, by slot
    disk,           \* the local JSON file: None or Some(content)
    process,        \* "starting", "running", or how the process ended
    \* ---- config.rs: the configuration sources
    central,        \* the central TOML file: None or Some(content)
    loaded,         \* what load_config returned at start-up: None or Some(Result)
    \* ---- network.rs: the market task
    quotes,         \* the quoteResponse.result array fetch_market_status
                    \* received last: None or Some(array)
    \* ---- the terminal
    typed           \* how many events of a scripted session the input
                    \* listener has read

\* Option<T> as a sequence of length 0 or 1.
None == <<>>
Some(x) == <<x>>

\* ------------------------------------------------------------------ bounds
NumCallers == 3
MaxCalls == 2
NumTokens == 2
MaxInput == 2
MaxStocks == 3
MaxTasks == 1
MaxSearches == 1
MaxChan == 1
FetchMaxTasks == 2
FetchMaxChan == 2
MaxPoints == 1
MaxResults == 2
SearchMaxSearches == 2
SearchMaxChan == 1
LoopMaxChan == 2
MaxQuotes == 3
MaxYield == 1

Callers == 1..NumCallers
\* The crumbs the getcrumb endpoint may answer with.
Tokens == 1..NumTokens

crumbVars == <<YAHOO_CRUMB, lock, pc, ret, calls, handshakes, callView>>
appVars == <<app, chan, tasks, searches, disk, process>>
cfgVars == <<central, loaded>>
mktVars == <<quotes>>
termVars == <<typed>>
vars == <<crumbVars, appVars, cfgVars, mktVars, termVars>>

\* --------------------------------------------------------- get_yahoo_crumb
NotCalled == [busy |-> FALSE, empty |-> FALSE]

CrumbStart ==
    /\ YAHOO_CRUMB = None
    /\ lock = None
    /\ pc = [t \in Callers |-> "idle"]
    /\ ret = [t \in Callers |-> None]
    /\ calls = [t \in Callers |-> 0]
    /\ handshakes = 0
    /\ callView = [t \in Callers |-> NotCalled]

\* A task (fetch_details, fetch_market_status) calls get_yahoo_crumb: it
\* reaches `mutex.lock().await`.
Call(t) ==
    /\ pc[t] = "idle"
    /\ calls[t] < MaxCalls
    /\ pc' = [pc EXCEPT ![t] = "lock"]
    /\ calls' = [calls EXCEPT ![t] = @ + 1]
    /\ ret' = [ret EXCEPT ![t] = None]
    /\ callView' = [callView EXCEPT ![t] =
            [busy |-> \E u \in Callers : pc[u] # "idle",
             empty |-> YAHOO_CRUMB = None]]
    /\ UNCHANGED <<YAHOO_CRUMB, lock, handshakes>>
    /\ UNCHANGED <<appVars, cfgVars, mktVars, termVars>>

\* Whether the mutex can be taken by a caller.
LockMutantFree == TRUE
LockFree == lock = None

\* `mutex.lock().await` completes.
Lock(t) ==
    /\ pc[t] = "lock"
    /\ LockFree
    /\ lock' = Some(t)
    /\ pc' = [pc EXCEPT ![t] = "check"]
    /\ UNCHANGED <<YAHOO_CRUMB, ret, calls, handshakes, callView>>
    /\ UNCHANGED <<appVars, cfgVars, mktVars, termVars>>

\* Returning as a mutant whose error paths keep the guard.
ReturnMutantKeepsGuardOnError(t, value) ==
    /\ ret' = [ret EXCEPT ![t] = Some(value)]
    /\ pc' = [pc EXCEPT ![t] = "idle"]
    /\ lock' = IF lock = Some(t) /\ value[1] = "Ok" THEN None ELSE lock

\* Returning drops the guard.
Return(t, value) ==
    /\ ret' = [ret EXCEPT ![t] = Some(value)]
    /\ pc' = [pc EXCEPT ![t] = "idle"]
    /\ lock' = IF lock = Some(t) THEN None ELSE lock

\* What `if let Some(c) = &*lock` finds.
CachedMutantNever == None
Cached == YAHOO_CRUMB

\* The cache check; on a miss the warm-up request is sent.
Check(t) ==
    /\ pc[t] = "check"
    /\ UNCHANGED <<appVars, cfgVars, mktVars, termVars>>
    /\ IF Cached # None
          THEN /\ Return(t, <<"Ok", Cached[1]>>)
               /\ UNCHANGED <<YAHOO_CRUMB, calls, handshakes, callView>>
          ELSE /\ pc' = [pc EXCEPT ![t] = "warmup"]
               /\ handshakes' = handshakes + 1
               /\ UNCHANGED <<YAHOO_CRUMB, lock, ret, calls, callView>>

\* The warm-up request ends; `let _ =` drops its outcome, whatever it is, and
\* the getcrumb request is sent.
WarmupDone(t) ==
    /\ pc[t] = "warmup"
    /\ pc' = [pc EXCEPT ![t] = "getcrumb"]
    /\ UNCHANGED <<YAHOO_CRUMB, lock, ret, calls, handshakes, callView>>
    /\ UNCHANGED <<appVars, cfgVars, mktVars, termVars>>

\* What a failed handshake leaves in the cache.
FailedCacheMutantEmptyToken == Some(0)
FailedCache == YAHOO_CRUMB

\* The getcrumb request fails in transport (`.await?`) or answers non-2xx.
CrumbFail(t) ==
    /\ pc[t] = "getcrumb"
    /\ \E why \in {"transport", "status"} : Return(t, <<"Err", why>>)
    /\ YAHOO_CRUMB' = FailedCache
    /\ UNCHANGED <<calls, handshakes, callView>>
    /\ UNCHANGED <<appVars, cfgVars, mktVars, termVars>>

\* The getcrumb request answers 2xx; the body is read next.
CrumbOk(t) ==
    /\ pc[t] = "getcrumb"
    /\ pc' = [pc EXCEPT ![t] = "text"]
    /\ UNCHANGED <<YAHOO_CRUMB, lock, ret, calls, handshakes, callView>>
    /\ UNCHANGED <<appVars, cfgVars, mktVars, termVars>>

\* `resp.text().await?` fails.
TextFail(t) ==
    /\ pc[t] = "text"
    /\ Return(t, <<"Err", "body">>)
    /\ YAHOO_CRUMB' = FailedCache
    /\ UNCHANGED <<calls, handshakes, callView>>
    /\ UNCHANGED <<appVars, cfgVars, mktVars, termVars>>

\* `*lock = Some(crumb.clone())`
StoredCrumbMutantDropped(c) == None
StoredCrumb(c) == Some(c)

\* The body is read: the crumb is cached and returned.
TextOk(t) ==
    /\ pc[t] = "text"
    /\ \E c \in Tokens :
        /\ YAHOO_CRUMB' = StoredCrumb(c)
        /\ Return(t, <<"Ok", c>>)
    /\ UNCHANGED <<calls, handshakes, callView>>
    /\ UNCHANGED <<appVars, cfgVars, mktVars, termVars>>

CrumbNext ==
    \E t \in Callers :
        \/ Call(t)
        \/ Lock(t)
        \/ Check(t)
        \/ WarmupDone(t)
        \/ CrumbFail(t)
        \/ CrumbOk(t)
        \/ TextFail(t)
        \/ TextOk(t)

\* ------------------------------------------------------------ strings
\* A String is a sequence of one-character strings.
\* The characters the keyboard sends in a run.
KeyChars == {"a", "q", " "}

\* The character U+00E9 (e with acute accent), two bytes in UTF-8, and its
\* upper case U+00C9.
EAcute == "U+00E9"
EAcuteUpper == "U+00C9"

\* char::to_uppercase on the characters in use.
Upper(c) ==
    CASE c = "a" -> "A" [] c = "q" -> "Q" [] c = "p" -> "P" [] c = "l" -> "L"
      [] c = EAcute -> EAcuteUpper [] OTHER -> c

\* char::len_utf8: the bytes of a character in a String.
len_utf8(c) == IF c \in {EAcute, EAcuteUpper} THEN 2 ELSE 1

\* String::len: the length in bytes.
RECURSIVE len(_)
len(s) == IF s = <<>> THEN 0 ELSE len_utf8(Head(s)) + len(Tail(s))

\* str::to_uppercase
to_uppercaseMutantKeep(s) == s
to_uppercase(s) == [i \in 1..Len(s) |-> Upper(s[i])]

\* str::trim: leading and trailing whitespace removed.
RECURSIVE trim_start(_)
trim_start(s) == IF s # <<>> /\ s[1] = " " THEN trim_start(Tail(s)) ELSE s
RECURSIVE trim_end(_)
trim_end(s) ==
    IF s # <<>> /\ s[Len(s)] = " " THEN trim_end(SubSeq(s, 1, Len(s) - 1)) ELSE s
trimMutantKeep(s) == s
trim(s) == trim_end(trim_start(s))

\* String::clear as a mutant that leaves the text in place.
clearMutantKeep(s) == s

\* String::clear (app.input.clear(), ui.rs 154, 216, 227, 245): the empty text.
clear(s) == <<>>

\* String::pop: the last character removed, if any.
pop(s) == IF s = <<>> THEN s ELSE SubSeq(s, 1, Len(s) - 1)

\* Vec::contains
containsMutantNever(v, x) == FALSE
contains(v, x) == \E i \in 1..Len(v) : v[i] = x

\* Vec::remove(index), index counted from 0.
remove(v, index) == SubSeq(v, 1, index) \o SubSeq(v, index + 2, Len(v))

\* ------------------------------------------------------------ app.rs: App
\* Config::default().stocks
DefaultStocks ==
    << <<"S", "C", "H", "O">>, <<"S", "P", "Y">>, <<"B", "I", "T", "B">>,
       <<"S", "G", "O", "L">>, <<"Q", "Q", "Q">> >>

\* App::new(config, message, message_color, stock_history)
App_newMutantAlwaysNormal(config, message, message_color, stock_history) ==
    [stocks |-> config.stocks,
     should_quit |-> FALSE,
     state |-> Some(0),
     api_key |-> config.api_key,
     current_quote |-> None,
     input |-> <<>>,
     input_mode |-> "Normal",
     message |-> message,
     message_color |-> message_color,
     stock_history |-> stock_history,
     details |-> None,
     search_results |-> <<>>,
     search_state |-> None,
     market_status |-> None]
App_new(config, message, message_color, stock_history) ==
    [stocks |-> config.stocks,
     should_quit |-> FALSE,
     state |-> Some(0),
     api_key |-> config.api_key,
     current_quote |-> None,
     input |-> <<>>,
     input_mode |-> IF config.api_key # None THEN "Normal" ELSE "KeyEntry",
     message |-> IF config.api_key # None THEN message ELSE <<"Welcome">>,
     message_color |-> IF config.api_key # None THEN message_color ELSE "Yellow",
     stock_history |-> stock_history,
     details |-> None,
     search_results |-> <<>>,
     search_state |-> None,
     market_status |-> None]

\* The index App::next selects from index i on a list of length n.
next_index(i, n) == (i + 1) % n

\* The index App::previous selects from index i on a list of length n.
previous_indexMutantNoWrap(i, n) == IF i = 0 THEN 0 ELSE i - 1
previous_index(i, n) == (i + n - 1) % n

\* App::next as a mutant that forgets the fetched data of the symbol it leaves.
nextMutantDropsData(a) ==
    IF a.stocks = <<>> THEN a
    ELSE [a EXCEPT !.state =
                      Some(IF a.state # None THEN (a.state[1] + 1) % Len(a.stocks) ELSE 0),
                   !.current_quote = None,
                   !.stock_history = None,
                   !.details = None]

\* App::next
next(a) ==
    IF a.stocks = <<>> THEN a
    ELSE [a EXCEPT !.state =
            Some(IF a.state # None THEN next_index(a.state[1], Len(a.stocks)) ELSE 0)]

\* App::previous
previous(a) ==
    IF a.stocks = <<>> THEN a
    ELSE [a EXCEPT !.state =
            Some(IF a.state # None THEN previous_index(a.state[1], Len(a.stocks)) ELSE 0)]

\* App::to_config as a mutant that leaves the credential out.
to_configMutantNoKey(a) == [stocks |-> a.stocks, api_key |-> None]

\* App::to_config
to_config(a) == [stocks |-> a.stocks, api_key |-> a.api_key]

\* The selection App::delete leaves after removing index selected, rest being
\* the list after the removal.
delete_stateMutantNoClamp(selected, rest) ==
    IF rest = <<>> THEN None ELSE Some(selected)
delete_state(selected, rest) ==
    IF rest = <<>> THEN None
    ELSE IF selected >= Len(rest) THEN Some(Len(rest) - 1)
    ELSE Some(selected)

\* Vec::remove panics on an index past the end.
delete_panics(a) ==
    a.state # None /\ a.stocks # <<>> /\ a.state[1] >= Len(a.stocks)

\* App::delete
delete(a) ==
    IF a.state = None \/ a.stocks = <<>> \/ delete_panics(a) THEN a
    ELSE LET selected == a.state[1]
             rest == remove(a.stocks, selected)
         IN  [a EXCEPT !.stocks = rest, !.state = delete_state(selected, rest)]

\* App::next_search as a mutant that steps past the last result.
next_searchMutantNoWrap(a) ==
    IF a.search_results = <<>> THEN a
    ELSE [a EXCEPT !.search_state =
            Some(IF a.search_state # None THEN a.search_state[1] + 1 ELSE 0)]

\* App::next_search
next_search(a) ==
    IF a.search_results = <<>> THEN a
    ELSE [a EXCEPT !.search_state =
            Some(IF a.search_state # None
                 THEN (a.search_state[1] + 1) % Len(a.search_results) ELSE 0)]

\* App::previous_search
previous_search(a) ==
    IF a.search_results = <<>> THEN a
    ELSE [a EXCEPT !.search_state =
            Some(IF a.search_state # None
                 THEN (a.search_state[1] + Len(a.search_results) - 1)
                        % Len(a.search_results)
                 ELSE 0)]

\* ------------------------------------------------------------ config.rs
\* serde_json::to_string_pretty(config): an object with the array of the
\* symbols and the key as a string, or null for no key.
to_jsonMutantNoKey(config) ==
    <<"json", [stocks |-> <<"array", config.stocks>>, api_key |-> <<"null">>]>>
to_json(config) ==
    <<"json", [stocks |-> <<"array", config.stocks>>,
               api_key |-> IF config.api_key = None THEN <<"null">>
                           ELSE <<"string", config.api_key[1]>>]>>

\* serde_json::from_str::<Config>: stocks is required and an array; api_key
\* is a string, null or missing.
from_json(content) ==
    IF content[1] # "json" THEN <<"Err", "parse">>
    ELSE LET fields == content[2]
         IN  IF "stocks" \notin DOMAIN fields THEN <<"Err", "missing field">>
             ELSE <<"Ok", [stocks |-> fields["stocks"][2],
                           api_key |-> IF "api_key" \in DOMAIN fields
                                          /\ fields["api_key"][1] = "string"
                                       THEN Some(fields["api_key"][2])
                                       ELSE None]>>

\* A file that exists and cannot be read; a file that does not parse.
Unreadable == <<"unreadable">>
Garbage == <<"garbage">>

\* Config::default()
Config_defaultMutantEmpty == [stocks |-> <<>>, api_key |-> None]
Config_default == [stocks |-> DefaultStocks, api_key |-> None]

\* The watchlist of a central configuration that names none.
CentralDefaultStocks ==
    << <<"S", "P", "Y">>, <<"Q", "Q", "Q">>, <<"B", "T", "C", "-", "U", "S", "D">> >>

\* The [waybar_finance] table of the central TOML, if the file is there, is
\* read, parses and has one (config.rs 44-48).
central_finance(ctr) ==
    IF ctr # None /\ ctr[1][1] = "toml" THEN ctr[1][2] ELSE None

\* The local file is used only with a key in it (config.rs 37).
local_usableMutantAlways(config) == TRUE
local_usable(config) == config.api_key # None

\* load_config on the local file and the central file.
load_config(local, ctr) ==
    IF local # None /\ local[1] = Unreadable
    THEN <<"Err", "Failed to read config file">>
    ELSE IF local # None /\ from_json(local[1])[1] = "Ok"
            /\ local_usable(from_json(local[1])[2])
    THEN from_json(local[1])
    ELSE IF central_finance(ctr) # None
    THEN LET finance == central_finance(ctr)[1]
         IN  <<"Ok", [stocks |-> IF finance.stocks = None THEN CentralDefaultStocks
                                 ELSE finance.stocks[1],
                      api_key |-> Some(finance.api_key)]>>
    ELSE <<"Ok", Config_default>>

\* save_config: the local file after a successful write.
save_config(config) == Some(to_json(config))

\* ------------------------------------------------------------ ui.rs: events
\* Result<T>: Ok(value) or Err(error).
Ok(x) == <<"Ok", x>>
Err(e) == <<"Err", e>>

\* The data the upstream sources hold for a symbol. FinnhubQuote, the history
\* points and StockDetails are kept abstract: what matters of a value is the
\* symbol it was fetched for (and, of a history, its number of points).
QuoteOf(symbol) == [quote_of |-> symbol]
HistoryOf(symbol, points) == [history_of |-> symbol, points |-> points]
DetailsOf(symbol) == [details_of |-> symbol]

\* AppEvent
Tick == <<"Tick">>
Input(event) == <<"Input", event>>
QuoteFetched(symbol, res) == <<"QuoteFetched", symbol, res>>
HistoryFetched(symbol, res) == <<"HistoryFetched", symbol, res>>
DetailsFetched(symbol, res) == <<"DetailsFetched", symbol, res>>
SearchResultsFetched(results) == <<"SearchResultsFetched", results>>
MarketFetched(res) == <<"MarketFetched", res>>

\* crossterm::event::Event: a key press, a paste, anything else (a key release,
\* a resize, a mouse or focus event).
Key(code) == <<"Key", code>>
Paste(text) == <<"Paste", text>>
OtherEvent == <<"Other">>
Char(c) == <<"Char", c>>

\* What the handling of one event asks of the loop besides the new App: a fetch
\* task to spawn, a search task to spawn, a save_config call that succeeded, or
\* a panic.
Handled(a) ==
    [app |-> a, fetch |-> None, search |-> None, save |-> FALSE, panic |-> FALSE]

\* InputMode::KeyEntry, by key code (ui.rs 140-170). save_ok: whether
\* save_config succeeds.
on_key_KeyEntry(a, code, save_ok) ==
    CASE code[1] = "Char" -> Handled([a EXCEPT !.input = Append(@, code[2])])
      [] code[1] = "Backspace" -> Handled([a EXCEPT !.input = pop(@)])
      [] code[1] = "Enter" ->
            LET key == trim(a.input)
                saved == [a EXCEPT !.api_key = Some(key),
                                   !.input = clear(@),
                                   !.input_mode = "Normal",
                                   !.message = <<"API Key Saved">>,
                                   !.message_color = "Green"]
            IN  IF key = <<>> THEN Handled(a)
                ELSE IF save_ok THEN [Handled(saved) EXCEPT !.save = TRUE]
                ELSE Handled([saved EXCEPT !.message = <<"Failed to save config">>,
                                           !.message_color = "Red"])
      [] code[1] = "Esc" -> Handled([a EXCEPT !.should_quit = TRUE])
      [] OTHER -> Handled(a)

\* InputMode::Normal, by key code (ui.rs 171-208).
on_key_Normal(a, code) ==
    CASE code = Char("q") -> Handled([a EXCEPT !.should_quit = TRUE])
      [] code = Char("a") ->
            Handled([a EXCEPT !.input_mode = "Editing",
                              !.message = <<"Enter Symbol">>,
                              !.message_color = "Yellow"])
      [] code[1] = "Down" -> Handled(next(a))
      [] code[1] = "Up" -> Handled(previous(a))
      [] code[1] = "Enter" ->
            IF a.state = None THEN Handled(a)
            ELSE IF a.state[1] >= Len(a.stocks)
                \* app.stocks[selected] indexes past the end
                THEN [Handled(a) EXCEPT !.panic = TRUE]
            ELSE IF a.api_key = None THEN Handled(a)
            ELSE LET symbol == a.stocks[a.state[1] + 1]
                 IN  [Handled([a EXCEPT !.message = <<"Fetching", symbol>>,
                                        !.message_color = "Cyan"])
                        EXCEPT !.fetch = Some(symbol)]
      [] code = Char("d") \/ code[1] = "Delete" ->
            IF delete_panics(a) THEN [Handled(a) EXCEPT !.panic = TRUE]
            ELSE Handled(delete(a))
      [] OTHER -> Handled(a)

\* InputMode::Editing, KeyCode::Esc (ui.rs 244-249).
on_esc_EditingMutantKeepsInput(a) ==
    [a EXCEPT !.input_mode = "Normal", !.message = <<"Ready">>, !.message_color = "Gray"]
on_esc_Editing(a) ==
    [a EXCEPT !.input = clear(@),
              !.input_mode = "Normal",
              !.message = <<"Ready">>,
              !.message_color = "Gray"]

\* InputMode::Editing, by key code (ui.rs 209-270).
on_key_Editing(a, code) ==
    CASE code[1] = "Enter" ->
            LET new_symbol == to_uppercase(trim(a.input))
            IN  IF new_symbol = <<>> THEN Handled(a)
                ELSE IF contains(a.stocks, new_symbol)
                THEN Handled([a EXCEPT !.message = <<"exists", new_symbol>>,
                                       !.message_color = "Yellow",
                                       !.input = clear(@),
                                       !.input_mode = "Normal"])
                ELSE IF a.api_key = None THEN Handled(a)
                ELSE [Handled([a EXCEPT !.message = <<"Adding", new_symbol>>,
                                        !.stocks = Append(@, new_symbol),
                                        !.state = Some(Len(a.stocks)),
                                        !.input = clear(@),
                                        !.input_mode = "Normal"])
                        EXCEPT !.fetch = Some(new_symbol)]
      [] code[1] = "Esc" -> Handled(on_esc_Editing(a))
      [] code[1] = "Char" ->
            LET query == Append(a.input, code[2])
            IN  [Handled([a EXCEPT !.input = query]) EXCEPT !.search = Some(query)]
      [] code[1] = "Backspace" -> Handled([a EXCEPT !.input = pop(@)])
      [] code[1] = "Down" -> Handled(next_search(a))
      [] code[1] = "Up" -> Handled(previous_search(a))
      [] OTHER -> Handled(a)

\* AppEvent::Input (ui.rs 130-275)
on_input(a, event, save_ok) ==
    CASE event[1] = "Paste" ->
            Handled([a EXCEPT !.input = @ \o event[2],
                              !.message = <<"Pasted text">>,
                              !.message_color = "Yellow"])
      [] event[1] = "Key" ->
            ( CASE a.input_mode = "KeyEntry" -> on_key_KeyEntry(a, event[2], save_ok)
                [] a.input_mode = "Normal" -> on_key_Normal(a, event[2])
                [] a.input_mode = "Editing" -> on_key_Editing(a, event[2]) )
      [] OTHER -> Handled(a)

\* AppEvent::QuoteFetched as a mutant that blanks the quote on a failure.
on_quoteMutantClearsOnError(a, sym, res) ==
    IF res[1] = "Ok"
    THEN [a EXCEPT !.current_quote = Some(res[2]),
                   !.message = <<"Updated", sym>>,
                   !.message_color = "Red"]
    ELSE [a EXCEPT !.current_quote = None,
                   !.message = <<"Error", res[2]>>,
                   !.message_color = "Red"]

\* AppEvent::QuoteFetched (ui.rs 101-113)
on_quote(a, sym, res) ==
    IF res[1] = "Ok"
    THEN [a EXCEPT !.current_quote = Some(res[2]),
                   !.message = <<"Updated", sym>>,
                   !.message_color = "Red"]
    ELSE [a EXCEPT !.message = <<"Error", res[2]>>, !.message_color = "Red"]

\* AppEvent::HistoryFetched (ui.rs 114-119)
on_history(a, sym, res) ==
    IF res[1] = "Ok" THEN [a EXCEPT !.stock_history = Some(res[2])]
    ELSE [a EXCEPT !.stock_history = None]

\* AppEvent::DetailsFetched (ui.rs 120-129)
on_details(a, sym, res) ==
    IF res[1] = "Ok" THEN [a EXCEPT !.details = Some(res[2])]
    ELSE [a EXCEPT !.details = None,
                   !.message = <<"Details fetch failed", sym, res[2]>>,
                   !.message_color = "Red"]

\* AppEvent::MarketFetched (ui.rs 95-100); the error is only printed.
on_market(a, res) ==
    IF res[1] = "Ok" THEN [a EXCEPT !.market_status = Some(res[2])] ELSE a

\* AppEvent::SearchResultsFetched (ui.rs 276-285)
on_search_resultsMutantFirstWins(a, results) ==
    IF a.search_results # <<>> THEN a
    ELSE [a EXCEPT !.message = <<"Fetched results", Len(results)>>,
                   !.message_color = "Cyan",
                   !.search_results = results,
                   !.search_state = IF results # <<>> THEN Some(0) ELSE None]
on_search_results(a, results) ==
    [a EXCEPT !.message = <<"Fetched results", Len(results)>>,
              !.message_color = "Cyan",
              !.search_results = results,
              !.search_state = IF results # <<>> THEN Some(0) ELSE None]

\* The Tick arm as a mutant that marks the loop for exit.
on_tickMutantQuits(a) == [a EXCEPT !.should_quit = TRUE]

\* AppEvent::Tick (ui.rs 92-94): nothing but the redraw at the top of the loop.
on_tick(a) == a

\* The match on the received event (ui.rs 91-286).
on_event(a, event, save_ok) ==
    CASE event[1] = "Tick" -> Handled(on_tick(a))
      [] event[1] = "MarketFetched" -> Handled(on_market(a, event[2]))
      [] event[1] = "QuoteFetched" -> Handled(on_quote(a, event[2], event[3]))
      [] event[1] = "HistoryFetched" -> Handled(on_history(a, event[2], event[3]))
      [] event[1] = "DetailsFetched" -> Handled(on_details(a, event[2], event[3]))
      [] event[1] = "Input" -> on_input(a, event[2], save_ok)
      [] event[1] = "SearchResultsFetched" ->
            Handled(on_search_results(a, event[2]))

\* ------------------------------------------------------------ network.rs: fetches
\* fetch_history as a mutant that passes an empty series on as a success.
fetch_historyMutantEmptyOk(symbol, answer) ==
    IF answer[1] = "Err" THEN Err("Yaho API Error")
    ELSE Ok(HistoryOf(symbol, answer[2]))

\* fetch_history (network.rs 215-229) on the provider's answer: an API error,
\* or a number of quotes; no points is an error.
fetch_history(symbol, answer) ==
    IF answer[1] = "Err" THEN Err("Yaho API Error")
    ELSE IF answer[2] = 0 THEN Err("History data is empty")
    ELSE Ok(HistoryOf(symbol, answer[2]))

\* The chart pane of the render pass (ui.rs 376-424): with a history it
\* reads history[0] and history.last().unwrap(), which panic on an empty
\* series; without one it draws the placeholder.
render_chart(a) ==
    IF a.stock_history # None
    THEN IF a.stock_history[1].points = 0 THEN "panic" ELSE "1 Year History"
    ELSE "Press Enter to load Chart"

\* The provider's answers to a history request.
HistoryAnswers == {Err("api")} \cup {Ok(n) : n \in 0..MaxPoints}

\* fetch_quote (network.rs 200-211): the quote of the symbol, or an error.
QuoteResults(symbol) == {Ok(QuoteOf(symbol)), Err("quote")}

\* fetch_details (network.rs 151-198): the details of the symbol, or an error
\* (of get_yahoo_crumb, of the request, or "No data found").
DetailsResults(symbol) == {Ok(DetailsOf(symbol)), Err("details")}

\* search_ticker (network.rs 127-147): the matches of the query, possibly
\* none, or an error.
SearchResults(query) ==
    {Ok([k \in 1..n |-> <<query, k>>]) : n \in 0..MaxResults} \cup {Err("search")}

\* Option::unwrap_or
unwrap_or(opt, default) == IF opt = None THEN default ELSE opt[1]

\* The mapping loop of fetch_market_status (network.rs 313-321): the entries
\* in array order, each assigning the yield its symbol names.
RECURSIVE map_yields_from(_, _)
map_yields_from(acc, results) ==
    IF results = <<>> THEN acc
    ELSE LET q == Head(results)
             val == unwrap_or(q.regular_market_price, 0)
             upd == CASE q.symbol = "^TNX" -> [acc EXCEPT !.yield_10y = val]
                      [] q.symbol = "^FVX" -> [acc EXCEPT !.yield_5y = val]
                      [] q.symbol = "^IRX" -> [acc EXCEPT !.yield_3m = val]
                      [] OTHER -> acc
         IN  map_yields_from(upd, Tail(results))

\* The mapping of fetch_market_status as a mutant that takes the yields by
\* position in the array.
map_yieldsMutantByPosition(results) ==
    LET at(i) == IF i <= Len(results)
                 THEN unwrap_or(results[i].regular_market_price, 0) ELSE 0
    IN  [yield_10y |-> at(1), yield_5y |-> at(2), yield_3m |-> at(3)]

\* The MarketStatus fetch_market_status builds from the result array
\* (network.rs 307-327): the yields start at 0.0.
map_yields(results) ==
    map_yields_from([yield_10y |-> 0, yield_5y |-> 0, yield_3m |-> 0], results)

\* The result array for the three symbols of the request, in request order.
RequestedQuotes ==
    << [symbol |-> "^TNX", regular_market_price |-> Some(1)],
       [symbol |-> "^FVX", regular_market_price |-> Some(1)],
       [symbol |-> "^IRX", regular_market_price |-> None] >>

\* fetch_market_status (network.rs 288-328): the status of an answer, or the
\* error of get_yahoo_crumb, of the request or of the decoding.
MarketResults == {Ok(map_yields(RequestedQuotes)), Err("yields")}

\* The upstream services in a run: "any" answers or fails, "down" fails every
\* request.
Failures(results) == {r \in results : r[1] = "Err"}
Outcomes(net, results) == IF net = "down" THEN Failures(results) ELSE results

\* ------------------------------------------------------------ ui.rs: run_tui
\* The configurations App::new starts from: a first run (no key, hence the
\* default watchlist), and saved configurations with a key.
Sym(c) == <<c>>
SavedConfigs ==
    {[stocks |-> s, api_key |-> Some(<<"k">>)] :
        s \in {<<>>, <<Sym("A")>>, <<Sym("A"), Sym("Q")>>}}

AppStartFrom(configs) ==
    /\ \E config \in configs :
        /\ app = App_new(config, <<"Ready">>, "Gray", None)
        /\ disk = IF config.api_key # None THEN save_config(config) ELSE None
        /\ loaded = Some(Ok(config))
    /\ central = None
    /\ chan = <<>>
    /\ tasks = <<>>
    /\ searches = <<>>
    /\ process = "running"
    /\ quotes = None
    /\ typed = 0

\* tx.send on the unbounded channel.
SendMutantFront(event) == chan' = <<event>> \o chan
Send(event) == chan' = Append(chan, event)

Running == process = "running"

\* The heartbeat task as a mutant that ticks only while other events wait.
TickProducerMutantIdleStops(cap) ==
    /\ Running
    /\ chan # <<>>
    /\ Len(chan) < cap
    /\ chan' = Append(chan, Tick)
    /\ UNCHANGED <<app, tasks, searches, disk, process, crumbVars, cfgVars, mktVars, termVars>>

\* The heartbeat task (ui.rs 45-54).
TickProducer(cap) ==
    /\ Running
    /\ Len(chan) < cap
    /\ Send(Tick)
    /\ UNCHANGED <<app, tasks, searches, disk, process, crumbVars, cfgVars, mktVars, termVars>>

IsKey(event, name) ==
    event[1] = "Input" /\ event[2][1] = "Key" /\ event[2][2][1] = name
\* The characters the queued input events can still add to app.input.
RECURSIVE queued_chars(_)
queued_chars(q) ==
    IF q = <<>> THEN 0
    ELSE queued_chars(Tail(q)) +
         ( IF IsKey(Head(q), "Char") THEN 1
           ELSE IF Head(q)[1] = "Input" /\ Head(q)[2][1] = "Paste"
                THEN Len(Head(q)[2][2])
           ELSE 0 )
queued_keys(name) == Cardinality({i \in 1..Len(chan) : IsKey(chan[i], name)})

KeyEvents(names) == {Key(<<k>>) : k \in names}

\* The bounds of the model, as limits on what the user does: the input buffer,
\* the tasks in flight and the watchlist stay within MaxInput, max_tasks,
\* MaxSearches and MaxStocks.
WithinLimits(event, max_tasks, max_searches) ==
    /\ event[1] = "Paste" =>
            Len(app.input) + queued_chars(chan) + Len(event[2]) <= MaxInput
    /\ (event[1] = "Key" /\ event[2][1] = "Char") =>
            /\ Len(app.input) + queued_chars(chan) < MaxInput
            /\ Len(searches) + queued_keys("Char") < max_searches
    /\ (event[1] = "Key" /\ event[2][1] = "Enter") =>
            /\ Len(tasks) + queued_keys("Enter") < max_tasks
            /\ \/ Len(app.stocks) + queued_keys("Enter") < MaxStocks
               \/ app.input_mode = "Normal" /\ queued_keys("Char") = 0
               \/ app.input_mode = "KeyEntry" /\ queued_keys("Enter") = 0

WithinBounds(event, max_tasks) == WithinLimits(event, max_tasks, MaxSearches)

\* The input listener (ui.rs 57-66): one terminal event read and forwarded.
InputReaderWith(events, cap, max_tasks, max_searches) ==
    /\ Running
    /\ Len(chan) < cap
    /\ \E event \in events :
        /\ WithinLimits(event, max_tasks, max_searches)
        /\ Send(Input(event))
    /\ UNCHANGED <<app, tasks, searches, disk, process, crumbVars, cfgVars, mktVars, termVars>>
InputReader(events, cap, max_tasks) ==
    InputReaderWith(events, cap, max_tasks, MaxSearches)

\* The input listener (ui.rs 57-66) on a terminal that delivers the events
\* of a scripted session, one after the other.
ScriptReader(script, cap) ==
    /\ Running
    /\ typed < Len(script)
    /\ Len(chan) < cap
    /\ Send(Input(script[typed + 1]))
    /\ typed' = typed + 1
    /\ UNCHANGED <<app, tasks, searches, disk, process, crumbVars, cfgVars, mktVars>>

\* The market task (ui.rs 67-82): one period, one fetch, one event. The fetch
\* fails, or receives one of the result arrays and maps it.
MarketPollOf(cap, responses) ==
    /\ Running
    /\ Len(chan) < cap
    /\ \/ /\ Send(MarketFetched(Err("yields")))
          /\ UNCHANGED quotes
       \/ \E results \in responses :
            /\ quotes' = Some(results)
            /\ Send(MarketFetched(Ok(map_yields(results))))
    /\ UNCHANGED <<app, tasks, searches, disk, process, crumbVars, cfgVars, termVars>>
MarketPoll(cap) == MarketPollOf(cap, {RequestedQuotes})

\* The event a fetch task sends at a step, for the outcome of that fetch.
TaskEventsMutantQuoteOnly(task, net) ==
    {QuoteFetched(task.symbol, r) : r \in Outcomes(net, QuoteResults(task.symbol))}
TaskEvents(task, net) ==
    CASE task.step = 0 ->
            {QuoteFetched(task.symbol, r) :
                r \in Outcomes(net, QuoteResults(task.symbol))}
      [] task.step = 1 ->
            {HistoryFetched(task.symbol, fetch_history(task.symbol, answer)) :
                answer \in Outcomes(net, HistoryAnswers)}
      [] task.step = 2 ->
            {DetailsFetched(task.symbol, r) :
                r \in Outcomes(net, DetailsResults(task.symbol))}

\* An on-demand fetch task (ui.rs 193-202, 231-240) completes its next fetch
\* and sends the event; after the third it ends.
TaskStep(net, cap) ==
    /\ Running
    /\ Len(chan) < cap
    /\ \E i \in 1..Len(tasks) :
        /\ \E event \in TaskEvents(tasks[i], net) : Send(event)
        /\ tasks' = IF tasks[i].step = 2 THEN remove(tasks, i - 1)
                    ELSE [tasks EXCEPT ![i].step = @ + 1]
    /\ UNCHANGED <<app, searches, disk, process, crumbVars, cfgVars, mktVars, termVars>>

\* The search task asks search_ticker only for a query of more than one byte
\* (ui.rs 259).
search_requested(query) == len(query) > 1

\* A search task (ui.rs 258-264) ends: without a request for a query of one
\* byte, with an event for an answer, silently for a failed request.
SearchStep(net, cap) ==
    /\ Running
    /\ \E i \in 1..Len(searches) :
        /\ searches' = remove(searches, i - 1)
        /\ IF search_requested(searches[i])
           THEN \E res \in Outcomes(net, SearchResults(searches[i])) :
                    IF res[1] = "Ok"
                    THEN Len(chan) < cap /\ Send(SearchResultsFetched(res[2]))
                    ELSE UNCHANGED chan
           ELSE UNCHANGED chan
    /\ UNCHANGED <<app, tasks, disk, process, crumbVars, cfgVars, mktVars, termVars>>

\* rx.recv().await as a mutant that returns only when no fetch task is in
\* flight.
recv_readyMutantAfterFetch == chan # <<>> /\ tasks = <<>>

\* rx.recv().await (ui.rs 90) returns as soon as an event is in the channel.
recv_ready == chan # <<>>

\* One turn of the main loop (ui.rs 84-295): receive, handle, and on
\* should_quit save and exit.
Consume ==
    /\ Running
    /\ recv_ready
    /\ UNCHANGED <<crumbVars, cfgVars, mktVars, termVars>>
    /\ \E save_ok \in BOOLEAN :
        LET h == on_event(app, Head(chan), save_ok)
            quit == h.app.should_quit
        IN  IF h.panic
            THEN /\ process' = "panicked"
                 /\ UNCHANGED <<app, chan, tasks, searches, disk>>
            ELSE /\ app' = h.app
                 /\ chan' = Tail(chan)
                 /\ tasks' = IF h.fetch = None THEN tasks
                             ELSE Append(tasks, [symbol |-> h.fetch[1], step |-> 0])
                 /\ searches' = IF h.search = None THEN searches
                                ELSE Append(searches, h.search[1])
                 /\ disk' = IF h.save \/ (quit /\ save_ok)
                            THEN save_config(to_config(h.app)) ELSE disk
                 /\ process' = IF ~quit THEN "running"
                               ELSE IF save_ok THEN "exited" ELSE "failed"

\* Start-up: load_config, App::new on its result, run_tui; a load_config
\* error ends the process.
Start ==
    /\ process = "starting"
    /\ LET r == load_config(disk, central)
       IN  /\ loaded' = Some(r)
           /\ IF r[1] = "Ok"
              THEN /\ app' = App_new(r[2], <<"Ready">>, "Gray", None)
                   /\ process' = "running"
              ELSE /\ app' = app
                   /\ process' = "failed"
    /\ UNCHANGED <<chan, tasks, searches, disk, central, crumbVars, mktVars, termVars>>

\* The user runs the program again after it has ended: a new process, with
\* the files as they were left. Until the new process has built its App, app
\* is still the App the last process ended with.
Restart ==
    /\ process \in {"exited", "failed", "panicked"}
    /\ process' = "starting"
    /\ loaded' = None
    /\ chan' = <<>>
    /\ tasks' = <<>>
    /\ searches' = <<>>
    /\ UNCHANGED <<app, disk, central, crumbVars, mktVars, termVars>>

\* ------------------------------------------------------------ specifications
\* The crumb cache is only part of CrumbSpec: elsewhere the outcome of
\* fetch_details and fetch_market_status is any of their results.

\* Spec: the user edits and navigates the watchlist of a saved configuration
\* while the upstream services are down.
EditEvents ==
    {Key(Char("a")), Key(Char(" ")), Paste(<<"a">>), OtherEvent}
        \cup KeyEvents({"Enter", "Esc", "Backspace", "Up", "Down", "Delete", "Tab"})
Init == CrumbStart /\ AppStartFrom(SavedConfigs)
Next ==
    \/ InputReader(EditEvents, MaxChan, MaxTasks)
    \/ TaskStep("down", MaxChan)
    \/ SearchStep("down", MaxChan)
    \/ Consume
Spec == Init /\ [][Next]_vars

\* SearchSpec: the user types in the symbol editor, and leaves it without
\* committing, while the search service answers or fails.
SearchEvents ==
    {Key(Char("a")), Key(Char(EAcute)), Paste(<<"a">>)}
        \cup KeyEvents({"Esc", "Backspace", "Up", "Down"})
SearchNext ==
    \/ InputReaderWith(SearchEvents, SearchMaxChan, MaxTasks, SearchMaxSearches)
    \/ SearchStep("any", SearchMaxChan)
    \/ Consume
SearchSpec == Init /\ [][SearchNext]_vars

\* LoopSpec: every producer of the channel runs (the heartbeat, the market
\* task, the input listener, the fetch and search tasks) beside the main loop,
\* from a first run without a credential or from a saved configuration; the
\* quote, history, details and search services are down.
LoopConfigs == {Config_default, [stocks |-> <<Sym("A"), Sym("Q")>>, api_key |-> Some(<<"k">>)]}
LoopEvents == {Key(Char("a"))} \cup KeyEvents({"Enter", "Esc", "Down"})
LoopInit == CrumbStart /\ AppStartFrom(LoopConfigs)
LoopNext ==
    \/ TickProducer(LoopMaxChan)
    \/ MarketPoll(LoopMaxChan)
    \/ InputReader(LoopEvents, LoopMaxChan, MaxTasks)
    \/ TaskStep("down", LoopMaxChan)
    \/ SearchStep("down", LoopMaxChan)
    \/ Consume
LoopSpec == LoopInit /\ [][LoopNext]_vars

\* MarketSpec: the market task polls, and the upstream service answers with
\* any array of at most MaxQuotes entries, one entry at most for a symbol, in
\* any order, with or without a price, or fails.
YieldSymbols == {"^TNX", "^FVX", "^IRX", "^VIX"}
QuoteEntries ==
    [symbol : YieldSymbols,
     regular_market_price : {None} \cup {Some(v) : v \in 1..MaxYield}]
QuoteArrays ==
    {results \in UNION {[1..n -> QuoteEntries] : n \in 0..MaxQuotes} :
        \A i, j \in 1..Len(results) :
            results[i].symbol = results[j].symbol => i = j}
MarketNext ==
    \/ MarketPollOf(MaxChan, QuoteArrays)
    \/ Consume
MarketSpec == Init /\ [][MarketNext]_vars

\* FirstRunSpec: the program is started without a credential in the local
\* file and without a central file; the user types a key, then adds a symbol,
\* while the upstream services answer or fail.
TypeText(text) == [i \in 1..Len(text) |-> Key(Char(text[i]))]
FirstRunScript ==
    TypeText(<<"a", "b", "c", "1", "2", "3">>) \o <<Key(<<"Enter">>)>>
        \o <<Key(Char("a"))>>
        \o TypeText(<<"a", "a", "p", "l">>) \o <<Key(<<"Enter">>)>>
FirstRunLocalFiles == {None, save_config([stocks |-> <<>>, api_key |-> None])}
FirstRunInit ==
    /\ CrumbStart
    /\ app = None
    /\ chan = <<>>
    /\ tasks = <<>>
    /\ searches = <<>>
    /\ disk \in FirstRunLocalFiles
    /\ central = None
    /\ loaded = None
    /\ process = "starting"
    /\ quotes = None
    /\ typed = 0
FirstRunNext ==
    \/ Start
    \/ ScriptReader(FirstRunScript, MaxChan)
    \/ TaskStep("any", MaxChan)
    \/ SearchStep("any", MaxChan)
    \/ Consume
FirstRunSpec == FirstRunInit /\ [][FirstRunNext]_vars

\* FetchSpec: the user moves the selection and confirms it while the upstream
\* services answer or fail.
FetchEvents == KeyEvents({"Enter", "Up", "Down"})
FetchNext ==
    \/ InputReader(FetchEvents, FetchMaxChan, FetchMaxTasks)
    \/ TaskStep("any", FetchMaxChan)
    \/ Consume
FetchSpec == Init /\ [][FetchNext]_vars

\* ConfigSpec: the program is started on the local and central files it finds,
\* the user enters a key, edits the watchlist, quits, and starts it again; the
\* upstream services do not answer in time.
Configs ==
    {[stocks |-> s, api_key |-> k] :
        s \in {<<>>, <<Sym("A")>>, <<Sym("A"), Sym("Q")>>},
        k \in {None, Some(<<"k">>)}}
\* The local file: absent, unreadable, not JSON, JSON without the api_key
\* field, or written by save_config.
LocalFiles ==
    {None, Some(Unreadable), Some(Garbage),
     Some(<<"json", [stocks |-> <<"array", <<Sym("A")>> >>]>>)}
        \cup {save_config(c) : c \in Configs}
\* The central file: absent, unreadable, not TOML, TOML without the
\* waybar_finance table, or with it, naming a watchlist or not.
CentralFiles ==
    {None, Some(Unreadable), Some(Garbage), Some(<<"toml", None>>),
     Some(<<"toml", Some([api_key |-> <<"c">>, stocks |-> None])>>),
     Some(<<"toml", Some([api_key |-> <<"c">>, stocks |-> Some(<<Sym("Q")>>)])>>)}
ConfigEvents ==
    {Key(Char("a")), Key(Char(" ")), Key(Char("q"))}
        \cup KeyEvents({"Enter", "Esc", "Backspace"})
ConfigInit ==
    /\ CrumbStart
    /\ app = None
    /\ chan = <<>>
    /\ tasks = <<>>
    /\ searches = <<>>
    /\ disk \in LocalFiles
    /\ central \in CentralFiles
    /\ loaded = None
    /\ process = "starting"
    /\ quotes = None
    /\ typed = 0
ConfigNext ==
    \/ Start
    \/ InputReader(ConfigEvents, MaxChan, MaxTasks)
    \/ Consume
    \/ Restart
ConfigSpec == ConfigInit /\ [][ConfigNext]_vars

\* A fetch task completes its fetch number k (0 the quote, 1 the history,
\* 2 the details) and sends the event.
FetchStep(k, net, cap) ==
    /\ TaskStep(net, cap)
    /\ \E i \in 1..Len(tasks) :
        /\ tasks[i].step = k
        /\ tasks' = IF k = 2 THEN remove(tasks, i - 1)
                    ELSE [tasks EXCEPT ![i].step = k + 1]

\* SlowQuoteSpec: FetchSpec where the main loop keeps receiving and every
\* history and details request that has been issued is answered, while a
\* quote request may take for ever.
SlowQuoteSpec ==
    /\ FetchSpec
    /\ WF_vars(Consume)
    /\ WF_vars(FetchStep(1, "any", FetchMaxChan))
    /\ WF_vars(FetchStep(2, "any", FetchMaxChan))

\* AvailableSpec: the user confirms, navigates and edits, from a saved
\* configuration, while the on-demand and search fetches fail or never
\* return and the market fetch answers, fails or never returns; the main loop
\* keeps receiving.
AvailableScript ==
    <<Key(<<"Enter">>), Key(<<"Down">>), Key(<<"Enter">>), Key(Char("a")),
      Key(Char("a")), Key(Char("a")), Key(<<"Esc">>), Key(<<"Up">>)>>
AvailableNext ==
    \/ ScriptReader(AvailableScript, FetchMaxChan)
    \/ MarketPoll(FetchMaxChan)
    \/ TaskStep("down", FetchMaxChan)
    \/ SearchStep("down", FetchMaxChan)
    \/ Consume
AvailableSpec == Init /\ [][AvailableNext]_vars /\ WF_vars(Consume)

\* HeartbeatSpec: the heartbeat and the market task beside the main loop; the
\* user may navigate or quit, or do nothing for ever. The interval timer fires
\* every period whatever the channel holds (the channel is unbounded, so the
\* capacity in the guard is a bound of the model only): the heartbeat is
\* strongly fair. The main loop keeps receiving.
HeartbeatEvents == {Key(Char("q"))} \cup KeyEvents({"Up", "Down"})
HeartbeatNext ==
    \/ TickProducer(LoopMaxChan)
    \/ MarketPoll(LoopMaxChan)
    \/ InputReader(HeartbeatEvents, LoopMaxChan, MaxTasks)
    \/ Consume
HeartbeatSpec ==
    /\ Init
    /\ [][HeartbeatNext]_vars
    /\ SF_vars(TickProducer(LoopMaxChan))
    /\ WF_vars(Consume)

\* CrumbSpec: the callers of get_yahoo_crumb alone.
CrumbInit == CrumbStart /\ AppStartFrom({Config_default})
CrumbSpec == CrumbInit /\ [][CrumbNext]_vars

\* CrumbFairSpec: the callers of get_yahoo_crumb when every request they send
\* is answered and the runtime runs every task that can run. A caller past
\* the lock makes its next step (the cache check, or the end of the request
\* it awaits); the tokio mutex hands the lock to its waiters in the order
\* they asked, so a waiter for which the lock is free again and again gets it.
CrumbStep(t) ==
    \/ Check(t)
    \/ WarmupDone(t)
    \/ CrumbFail(t)
    \/ CrumbOk(t)
    \/ TextFail(t)
    \/ TextOk(t)
CrumbFairSpec ==
    /\ CrumbInit
    /\ [][CrumbNext]_vars
    /\ \A t \in Callers : WF_vars(CrumbStep(t)) /\ SF_vars(Lock(t))

\* --------------------------------------------------- claims on the crumb cache
\* The callers whose handshake (warm-up request, getcrumb request, body) is
\* in flight.
InHandshake == {t \in Callers : pc[t] \in {"warmup", "getcrumb", "text"}}

IsErr(r) == r # None /\ r[1][1] = "Err"
IsOk(r) == r # None /\ r[1][1] = "Ok"

\* C2: in every interleaving of any number of callers of get_yahoo_crumb, at
\* most one handshake (warm-up request, then token request) is in flight.
C2_AtMostOneHandshakeInFlight == Cardinality(InHandshake) <= 1

\* C2 witness: one caller's handshake is in flight while two others wait for
\* the lock.
C2_Witness ==
    \E t \in Callers :
        /\ pc[t] = "getcrumb"
        /\ Cardinality({u \in Callers : pc[u] = "lock"}) >= 2

\* Two callers, and only they, have each called once, the second while the
\* first was inside get_yahoo_crumb, both on an empty cache, and both have
\* returned.
TwoConcurrentCallersDone(t1, t2) ==
    /\ t1 # t2
    /\ \A u \in Callers : calls[u] = IF u \in {t1, t2} THEN 1 ELSE 0
    /\ pc[t1] = "idle" /\ pc[t2] = "idle"
    /\ callView[t1].empty /\ callView[t2].empty /\ callView[t2].busy

C5_CachedForProcessLifetime ==
    [][YAHOO_CRUMB # None =>
            /\ YAHOO_CRUMB' = YAHOO_CRUMB
            /\ handshakes' = handshakes
            /\ InHandshake' = {}
            /\ \A t \in Callers :
                    (pc[t] # "idle" /\ pc'[t] = "idle")
                        => ret'[t] = Some(<<"Ok", YAHOO_CRUMB[1]>>)]_vars

\* C5 witness: a caller that called when the cache was already filled has
\* returned the cached token.
C5_Witness ==
    \E t \in Callers :
        /\ YAHOO_CRUMB # None
        /\ callView[t] = [busy |-> FALSE, empty |-> FALSE]
        /\ pc[t] = "idle"
        /\ ret[t] = Some(<<"Ok", YAHOO_CRUMB[1]>>)

\* --------------------------------------------------- claims on the main loop
\* The main loop receives this event and handles it without a panic.
Consumed(event) ==
    Running /\ chan # <<>> /\ Head(chan) = event /\ chan' = Tail(chan)

\* The watchlist symbol under the selection cursor, if the cursor is on one.
Selected(a) ==
    IF a.state # None /\ a.state[1] < Len(a.stocks)
    THEN Some(a.stocks[a.state[1] + 1]) ELSE None

FetchedKinds == {"QuoteFetched", "HistoryFetched", "DetailsFetched"}

\* C1: stale results are never applied. While the fetch confirmed for the
\* selected symbol S2 is in flight, a QuoteFetched, HistoryFetched or
\* DetailsFetched event tagged with another symbol S1 that the main loop
\* consumes changes none of current_quote, stock_history and details.
C1_StaleResultsNeverApplied ==
    [][ ( /\ Running /\ chan # <<>> /\ chan' = Tail(chan)
          /\ Head(chan)[1] \in FetchedKinds
          /\ Selected(app) # None
          /\ Selected(app) # Some(Head(chan)[2])
          /\ \E i \in 1..Len(tasks) : Some(tasks[i].symbol) = Selected(app) )
        => /\ app'.current_quote = app.current_quote
           /\ app'.stock_history = app.stock_history
           /\ app'.details = app.details ]_vars

NoDuplicates(v) == \A i, j \in 1..Len(v) : v[i] = v[j] => i = j

\* The Enter key is consumed in Editing mode with this text in the input.
AddSymbol(text) ==
    /\ app.input_mode = "Editing"
    /\ app.input = text
    /\ Consumed(Input(Key(<<"Enter">>)))

\* C6: the watchlist never holds a symbol twice, and an add (Enter in Editing
\* mode) whose trimmed, uppercased input is already in the watchlist leaves
\* the watchlist and the selection cursor unchanged and sets the rejection
\* message.
C6_NoDuplicateSymbols ==
    /\ [](NoDuplicates(app.stocks))
    /\ [][ \A i \in 1..Len(app.stocks) :
            AddSymbol(app.input) /\ to_uppercase(trim(app.input)) = app.stocks[i]
            => /\ app'.stocks = app.stocks
               /\ app'.state = app.state
               /\ app'.message = <<"exists", app.stocks[i]>> ]_vars

\* C6 witness: after "AA" was added to the watchlist, a second add of it has
\* been rejected.
C6_Witness ==
    /\ app.stocks = <<Sym("A"), <<"A", "A">> >>
    /\ app.message = <<"exists", <<"A", "A">> >>

\* A Down or Up key is consumed in Normal mode.
Pressed(name) ==
    app.input_mode = "Normal" /\ Consumed(Input(Key(<<name>>)))

\* C7: on a non-empty watchlist of length N every Down press in Normal mode
\* moves the cursor from i to (i + 1) mod N and every Up press to
\* (i - 1) mod N, so that after any sequence of presses the cursor is
\* (initial + downs - ups) mod N, within [0, N).
C7_NavigationWrapsModuloLength ==
    [][ \A i \in 0..(Len(app.stocks) - 1) :
            app.state = Some(i)
            => /\ Pressed("Down") =>
                    app'.state = Some((i + 1) % Len(app.stocks))
               /\ Pressed("Up") =>
                    app'.state = Some((i + Len(app.stocks) - 1) % Len(app.stocks))
               /\ (Pressed("Down") \/ Pressed("Up")) =>
                    /\ app'.stocks = app.stocks
                    /\ app'.state[1] \in 0..(Len(app.stocks) - 1) ]_vars

\* C7 witness: on [A, Q], unchanged since the start, the cursor has moved from
\* 0 to 1 and the next Down press, which wraps it to 0, is in the channel.
C7_Witness ==
    /\ app.stocks = <<Sym("A"), Sym("Q")>>
    /\ app.state = Some(1)
    /\ app.input_mode = "Normal"
    /\ app.message = <<"Ready">>
    /\ chan = <<Input(Key(<<"Down">>))>>

\* C8: in every reachable state the selection cursor is a valid index into
\* the watchlist when the watchlist is non-empty, and is unset exactly when
\* the watchlist is empty.
C8_CursorValidOrUnset ==
    /\ app.stocks = <<>> <=> app.state = None
    /\ app.stocks # <<>> => app.state[1] \in 0..(Len(app.stocks) - 1)

\* The list without the element at index i (counted from 0).
Without(v, i) == [j \in 1..(Len(v) - 1) |-> IF j <= i THEN v[j] ELSE v[j + 1]]

\* C9: Delete in Normal mode removes exactly the selected symbol and keeps the
\* order of the others; the cursor becomes unset if the watchlist becomes
\* empty, moves to the new last index if the last item was removed, and stays
\* put otherwise.
C9_DeleteRemovesSelectedAndClamps ==
    [][ \A i \in 0..(Len(app.stocks) - 1) :
            app.state = Some(i) /\ Pressed("Delete")
            => /\ app'.stocks = Without(app.stocks, i)
               /\ app'.state =
                    IF Len(app.stocks) = 1 THEN None
                    ELSE IF i = Len(app.stocks) - 1 THEN Some(i - 1)
                    ELSE Some(i) ]_vars

\* C9 witness: "AA", added at the end of [A, Q] and selected by the add, has
\* been deleted, and the cursor is on the new last item.
C9_Witness ==
    /\ app.stocks = <<Sym("A"), Sym("Q")>>
    /\ app.state = Some(1)
    /\ app.message = <<"Adding", <<"A", "A">> >>

\* C10: a history fetch that yields no data points is an error result, and
\* the state after the main loop has applied that error is not just the state
\* before with no chart: it carries an indication of the failure.
C10_EmptyHistorySurfacesAsError ==
    /\ [](\A i \in 1..Len(chan) :
            (chan[i][1] = "HistoryFetched" /\ chan[i][3][1] = "Ok")
            => chan[i][3][2].points > 0)
    /\ [][ ( /\ Running /\ chan # <<>> /\ chan' = Tail(chan)
             /\ Head(chan)[1] = "HistoryFetched"
             /\ Head(chan)[3] = Err("History data is empty") )
           => app' # [app EXCEPT !.stock_history = None] ]_vars

\* The symbols of the watchlists of FetchSpec.
FetchSymbols == {Sym("A"), Sym("Q")}

\* C11: within one on-demand fetch the three fetches run concurrently, so a
\* slow quote fetch does not delay the others: once the task for a symbol is
\* spawned, its history or details event is enqueued even if the quote
\* request is never answered.
C11_SlowQuoteDoesNotDelayOthers ==
    \A sym \in FetchSymbols :
        (\E i \in 1..Len(tasks) : tasks[i] = [symbol |-> sym, step |-> 0])
        ~> (\E j \in 1..Len(chan) :
                /\ chan[j][1] \in {"HistoryFetched", "DetailsFetched"}
                /\ chan[j][2] = sym)

\* The kind of the event sent after fetch number k of a task.
KindAt(k) ==
    CASE k = 0 -> "QuoteFetched" [] k = 1 -> "HistoryFetched" [] k = 2 -> "DetailsFetched"

\* Task i moves past its current fetch: to the next one, or, after the
\* details, to its end.
Advanced(i) ==
    IF tasks[i].step < 2
    THEN /\ Len(tasks') = Len(tasks)
         /\ tasks'[i] = [symbol |-> tasks[i].symbol, step |-> tasks[i].step + 1]
         /\ \A j \in 1..Len(tasks) : j # i => tasks'[j] = tasks[j]
    ELSE /\ Len(tasks') = Len(tasks) - 1
         /\ \A j \in 1..Len(tasks') :
                tasks'[j] = IF j < i THEN tasks[j] ELSE tasks[j + 1]

\* One event of this kind and symbol, carrying a result, is enqueued.
Enqueued(kind, sym) ==
    /\ Len(chan') = Len(chan) + 1
    /\ SubSeq(chan', 1, Len(chan)) = chan
    /\ LET event == chan'[Len(chan')]
       IN  /\ Len(event) = 3
           /\ event[1] = kind
           /\ event[2] = sym
           /\ event[3][1] \in {"Ok", "Err"}

\* C12: every on-demand fetch task enqueues three separate events, a
\* QuoteFetched, a HistoryFetched and a DetailsFetched, each tagged with the
\* task's symbol and each whether its fetch succeeded or failed: a task
\* starts before its quote fetch, moves on only by enqueuing the one event
\* of its current fetch, and ends only after the details event.
C12_ThreeSeparateEvents ==
    /\ [](\A i \in 1..Len(tasks) : tasks[i].step \in 0..2)
    /\ [][ \A i \in 1..Len(tasks) :
            Advanced(i) => Enqueued(KindAt(tasks[i].step), tasks[i].symbol) ]_vars
    /\ [][ tasks' # tasks =>
            \/ \E i \in 1..Len(tasks) : Advanced(i)
            \/ /\ Len(tasks') = Len(tasks) + 1
               /\ SubSeq(tasks', 1, Len(tasks)) = tasks
               /\ tasks'[Len(tasks')].step = 0 ]_vars

\* C12 witness: the task for A has ended; its quote fetch failed (the error
\* is displayed), its history fetch failed, and its history and details
\* events are both in the channel.
C12_Witness ==
    /\ tasks = <<>>
    /\ app.message = <<"Error", "quote">>
    /\ chan = <<HistoryFetched(Sym("A"), Err("History data is empty")),
                DetailsFetched(Sym("A"), Ok(DetailsOf(Sym("A"))))>>

\* Search task i, whose query is long enough for a request, ends.
SearchEnded(i) ==
    /\ Len(searches[i]) > 1
    /\ Len(searches') = Len(searches) - 1
    /\ \A j \in 1..Len(searches') :
            searches'[j] = IF j < i THEN searches[j] ELSE searches[j + 1]

\* C13: every failure of a fetch in a spawned task is delivered to the main
\* loop as an event and none ends the process: a fetch task that completes a
\* fetch, and a search task that ends after its request, each enqueue one
\* event and leave the process running, whatever the outcome of the request.
C13_EveryFetchFailureDelivered ==
    [][ /\ \A i \in 1..Len(tasks) :
            Running /\ Advanced(i)
            => Len(chan') = Len(chan) + 1 /\ process' = "running"
        /\ \A i \in 1..Len(searches) :
            Running /\ SearchEnded(i)
            => Len(chan') = Len(chan) + 1 /\ process' = "running" ]_vars

\* --------------------------------------------------- claims on the configuration
\* The new process loads the configuration (and, on success, builds its App).
StartStep == process = "starting" /\ process' # "starting"

\* What the central file supplies in ConfigSpec when it has a waybar_finance
\* table.
CentralSupplied ==
    {[stocks |-> CentralDefaultStocks, api_key |-> Some(<<"c">>)],
     [stocks |-> <<Sym("Q")>>, api_key |-> Some(<<"c">>)]}

HasFinance(ctr) == ctr # None /\ ctr[1][1] = "toml" /\ ctr[1][2] # None

\* C14 as stated: for every watchlist and every credential, present or
\* absent, load_config of the file save_config wrote yields that watchlist
\* and that credential.
C14_RoundTripAnyCredential ==
    [][ \A c \in Configs :
            StartStep /\ disk = save_config(c) => loaded' = Some(Ok(c)) ]_vars

\* C14 amended: the round trip reproduces watchlist and credential when the
\* credential is present, for the configurations drawn and for the one the
\* last process saved from its App; a configuration saved without a
\* credential is reloaded as the central configuration's or the default one.
C14_RoundTripWithCredential ==
    [][ StartStep =>
        /\ \A c \in Configs :
            disk = save_config(c) =>
                IF c.api_key # None THEN loaded' = Some(Ok(c))
                ELSE IF HasFinance(central)
                THEN \E x \in CentralSupplied : loaded' = Some(Ok(x))
                ELSE loaded' = Some(Ok([stocks |-> DefaultStocks, api_key |-> None]))
        /\ ( /\ app # None
             /\ app.api_key # None
             /\ disk = save_config([stocks |-> app.stocks, api_key |-> app.api_key]) )
           => /\ loaded' = Some(Ok([stocks |-> app.stocks, api_key |-> app.api_key]))
              /\ app'.stocks = app.stocks
              /\ app'.api_key = app.api_key ]_vars

\* C14 witness: the key "a" entered in the last run was saved with the default
\* watchlist, and this run has loaded both back.
C14_Witness ==
    /\ process = "running"
    /\ loaded = Some(Ok([stocks |-> DefaultStocks, api_key |-> Some(<<"a">>)]))
    /\ disk = save_config([stocks |-> DefaultStocks, api_key |-> Some(<<"a">>)])

C17_KeyEntryIffNoCredential ==
    /\ [](app # None => (app.input_mode = "KeyEntry" <=> app.api_key = None))
    /\ [][ (StartStep /\ process' = "running")
           => /\ app'.api_key = loaded'[1][2].api_key
              /\ app'.input_mode = "KeyEntry" <=> loaded'[1][2].api_key = None ]_vars
    /\ [][ (~StartStep /\ app # None /\ app.api_key # None)
           => app'.api_key # None /\ app'.input_mode # "KeyEntry" ]_vars

\* C17 witness: started without a credential, the user has entered the key
\* "a" and is now in Editing mode.
C17_Witness ==
    /\ process = "running"
    /\ loaded = Some(Ok([stocks |-> DefaultStocks, api_key |-> None]))
    /\ app.api_key = Some(<<"a">>)
    /\ app.input_mode = "Editing"

\* The text without its leading and trailing spaces.
NonSpace(s) == {i \in 1..Len(s) : s[i] # " "}
Stripped(s) ==
    IF NonSpace(s) = {} THEN <<>>
    ELSE SubSeq(s, CHOOSE i \in NonSpace(s) : \A j \in NonSpace(s) : i <= j,
                   CHOOSE i \in NonSpace(s) : \A j \in NonSpace(s) : i >= j)

\* C18: in KeyEntry mode, Enter with a buffer that is non-empty after
\* trimming sets the credential to the trimmed buffer, calls save_config
\* with it in the handling of that same event (the file holds the watchlist
\* and the new credential after the step, or, if the write failed, is
\* unchanged and the failure is displayed) and leaves the mode Normal;
\* Enter with an empty or whitespace-only buffer changes neither the
\* credential nor the mode and writes nothing.
C18_KeyEntryEnterCommitsAndSaves ==
    [][ (app # None /\ app.input_mode = "KeyEntry" /\ Consumed(Input(Key(<<"Enter">>))))
        => IF Stripped(app.input) # <<>>
           THEN /\ app'.api_key = Some(Stripped(app.input))
                /\ app'.input_mode = "Normal"
                /\ app'.stocks = app.stocks
                /\ \/ /\ disk' = Some(<<"json",
                                [stocks |-> <<"array", app.stocks>>,
                                 api_key |-> <<"string", Stripped(app.input)>>]>>)
                      /\ app'.message = <<"API Key Saved">>
                   \/ /\ disk' = disk
                      /\ app'.message = <<"Failed to save config">>
           ELSE /\ app'.api_key = app.api_key
                /\ app'.input_mode = app.input_mode
                /\ disk' = disk ]_vars

\* C18 witness: the key "a" has been committed in KeyEntry mode and the file
\* holds it with the default watchlist.
C18_Witness ==
    /\ process = "running"
    /\ loaded = Some(Ok([stocks |-> DefaultStocks, api_key |-> None]))
    /\ app.api_key = Some(<<"a">>)
    /\ app.input_mode = "Normal"
    /\ app.message = <<"API Key Saved">>
    /\ disk = Some(<<"json", [stocks |-> <<"array", DefaultStocks>>,
                              api_key |-> <<"string", <<"a">> >>]>>)

\* --------------------------------------------------- claims on Editing mode
\* The text with its letters in upper case.
UpperOf(s) ==
    [i \in 1..Len(s) |-> IF s[i] = "a" THEN "A" ELSE IF s[i] = "q" THEN "Q" ELSE s[i]]

\* C19: in Editing mode, Enter with a non-empty symbol that is not yet in the
\* watchlist appends its trimmed, uppercased form at the end of the
\* watchlist, sets the cursor to the index of the new entry, spawns one
\* on-demand fetch task for it, and returns the mode to Normal.
C19_AddAppendsSelectsAndFetches ==
    [][ LET sym == UpperOf(Stripped(app.input))
        IN  ( /\ AddSymbol(app.input)
              /\ sym # <<>>
              /\ \A i \in 1..Len(app.stocks) : app.stocks[i] # sym )
            => /\ app'.stocks = app.stocks \o <<sym>>
               /\ app'.state = Some(Len(app.stocks))
               /\ app'.input_mode = "Normal"
               /\ app'.input = <<>>
               /\ tasks' = tasks \o <<[symbol |-> sym, step |-> 0]>> ]_vars

\* C19 witness: "AA" has been added to [A]: it is last, selected, and its
\* fetch task is spawned.
C19_Witness ==
    /\ app.stocks = <<Sym("A"), <<"A", "A">> >>
    /\ app.state = Some(1)
    /\ app.input_mode = "Normal"
    /\ app.message = <<"Adding", <<"A", "A">> >>
    /\ tasks = <<[symbol |-> <<"A", "A">>, step |-> 0]>>

\* C20: in Editing mode, Escape empties the input buffer and returns to
\* Normal, leaves the watchlist, the cursor, the credential, the quote, the
\* history and the details unchanged, and spawns no task.
C20_EscapeDiscardsInput ==
    [][ (app.input_mode = "Editing" /\ Consumed(Input(Key(<<"Esc">>))))
        => /\ app'.input = <<>>
           /\ app'.input_mode = "Normal"
           /\ app'.stocks = app.stocks
           /\ app'.state = app.state
           /\ app'.api_key = app.api_key
           /\ app'.current_quote = app.current_quote
           /\ app'.stock_history = app.stock_history
           /\ app'.details = app.details
           /\ tasks' = tasks
           /\ searches' = searches ]_vars

\* C20 witness: after "AA" was added to [A], the user entered Editing mode
\* again and left it with Escape.
C20_Witness ==
    /\ app.stocks = <<Sym("A"), <<"A", "A">> >>
    /\ app.state = Some(1)
    /\ app.input_mode = "Normal"
    /\ app.input = <<>>
    /\ app.message = <<"Ready">>

\* C21: in Normal mode the add key 'a' switches to Editing mode with an empty
\* input buffer, whatever events came before (a paste received in Normal mode
\* included), changes neither the watchlist nor the cursor nor the fetched
\* data, and spawns no task.
C21_AddKeyOpensEmptyEditor ==
    [][ (app.input_mode = "Normal" /\ Consumed(Input(Key(Char("a")))))
        => /\ app'.input_mode = "Editing"
           /\ app'.input = <<>>
           /\ app'.stocks = app.stocks
           /\ app'.state = app.state
           /\ app'.current_quote = app.current_quote
           /\ app'.stock_history = app.stock_history
           /\ app'.details = app.details
           /\ tasks' = tasks
           /\ searches' = searches ]_vars

\* C22: the input buffer is cleared on every mode exit. Immediately after
\* any transition from Editing or KeyEntry to Normal (a new symbol committed,
\* a duplicate rejected, Escape, an API key committed) the input buffer is
\* empty.
C22_InputClearedOnModeExit ==
    [][ ( /\ process = "running"
          /\ app.input_mode \in {"Editing", "KeyEntry"}
          /\ app'.input_mode = "Normal" )
        => app'.input = <<>> ]_vars

\* C22 witness: a symbol already in the watchlist was typed in Editing mode
\* and rejected.
C22_Witness ==
    /\ process = "running"
    /\ app.input_mode = "Normal"
    /\ app.input = <<>>
    /\ \E sym \in {app.stocks[i] : i \in 1..Len(app.stocks)} :
            app.message = <<"exists", sym>>

\* The characters of the keyboard in SearchSpec.
TypedChars == {"a", EAcute}

\* Search task i ends and leaves the other search tasks in flight.
SearchTaskEnded(i) ==
    /\ Running
    /\ Len(searches') = Len(searches) - 1
    /\ \A j \in 1..Len(searches') :
            searches'[j] = IF j < i THEN searches[j] ELSE searches[j + 1]

\* C23: in Editing mode each character key appends exactly that character to
\* the input buffer and starts a search for the resulting buffer, and a
\* search request is made only for a buffer of more than one character: the
\* search for a buffer of length 0 or 1 ends without an answer in the channel.
C23_SearchOnlyForLongerThanOne ==
    [][ /\ \A c \in TypedChars :
            (app.input_mode = "Editing" /\ Consumed(Input(Key(Char(c)))))
            => /\ app'.input = Append(app.input, c)
               /\ searches' = Append(searches, Append(app.input, c))
        /\ \A i \in 1..Len(searches) :
            (SearchTaskEnded(i) /\ Len(searches[i]) <= 1) => chan' = chan ]_vars

\* C24: the search results and the search cursor are reset whenever the edit
\* buffer changes: after any event that modifies the input buffer (a
\* character key, Backspace, a paste, the clear on commit or cancel) the
\* search results shown before are shown no longer.
C24_SearchResetOnBufferChange ==
    [][ app'.input # app.input
        => /\ app'.search_results = <<>>
           /\ app'.search_state = None ]_vars

\* The head of the channel, a SearchResultsFetched event, is consumed.
SearchResultsConsumed ==
    /\ Running
    /\ chan # <<>>
    /\ Head(chan)[1] = "SearchResultsFetched"
    /\ chan' = Tail(chan)

\* C25: search results are last-write-wins by arrival. With several search
\* tasks in flight, search_results is always the payload of the
\* SearchResultsFetched event consumed last, whatever the order the queries
\* were typed in and whatever the mode when it arrives: consuming such an
\* event stores its payload and sets the secondary cursor to 0 if the payload
\* is non-empty and to unset otherwise, and nothing else changes
\* search_results.
C25_SearchResultsLastArrivalWins ==
    [][ /\ SearchResultsConsumed
            => /\ app'.search_results = Head(chan)[2]
               /\ app'.search_state =
                      IF Head(chan)[2] # <<>> THEN Some(0) ELSE None
        /\ app'.search_results # app.search_results => SearchResultsConsumed ]_vars

\* C25 witness: "aa" was typed, then Backspace and U+00E9; the matches of the
\* later query have arrived and replaced those of an earlier one, in Normal
\* mode after Escape, while the search for "aa" is still in flight.
C25_Witness ==
    /\ searches = << <<"a", "a">> >>
    /\ app.input_mode = "Normal"
    /\ app.search_results = << << <<"a", EAcute>>, 1 >> >>
    /\ app.search_state = Some(0)
    /\ app.message = <<"Fetched results", 1>>

\* C26: in Normal mode Up and Down change only the selection cursor: they
\* spawn no fetch task and leave the watchlist, the quote, the history, the
\* details, the mode, the input buffer and the credential unchanged (and
\* every other field of the application state).
C26_NavigationOnlyMovesCursor ==
    [][ (Pressed("Down") \/ Pressed("Up"))
        => /\ tasks' = tasks
           /\ searches' = searches
           /\ app'.stocks = app.stocks
           /\ app'.current_quote = app.current_quote
           /\ app'.stock_history = app.stock_history
           /\ app'.details = app.details
           /\ app'.input_mode = app.input_mode
           /\ app'.input = app.input
           /\ app'.api_key = app.api_key
           /\ [app' EXCEPT !.state = app.state] = app ]_vars

\* C26 witness: on [A, Q] the data of A was fetched with the cursor on A,
\* then Down moved the cursor to Q: the quote, history and details are still
\* those of A and no task is in flight.
C26_Witness ==
    /\ app.stocks = <<Sym("A"), Sym("Q")>>
    /\ app.state = Some(1)
    /\ app.current_quote = Some(QuoteOf(Sym("A")))
    /\ app.stock_history # None
    /\ app.details = Some(DetailsOf(Sym("A")))
    /\ tasks = <<>>
    /\ chan = <<>>

\* The main loop takes its turn on an Enter key at the head of the channel in
\* Normal mode: the event is consumed or the process ends on it.
EnterTurn ==
    /\ Running
    /\ app.input_mode = "Normal"
    /\ chan # <<>>
    /\ Head(chan) = Input(Key(<<"Enter">>))
    /\ (chan' = Tail(chan) \/ process' # process)

\* C27: in Normal mode Enter spawns exactly one on-demand fetch task, for the
\* symbol at the selection cursor at the moment Enter is processed, and
\* changes neither the watchlist nor the cursor nor the mode.
C27_EnterFetchesSelected ==
    [][ EnterTurn
        => /\ process' = "running"
           /\ Selected(app) # None
           /\ tasks' = Append(tasks, [symbol |-> Selected(app)[1], step |-> 0])
           /\ app'.stocks = app.stocks
           /\ app'.state = app.state
           /\ app'.input_mode = app.input_mode ]_vars

\* C28: consuming a Tick event in any mode changes no field of the
\* application state (watchlist, cursor, mode, input buffer, credential,
\* quote, history, details, search results, market status, message, quit
\* flag) and spawns no task.
C28_TickChangesNothing ==
    [][ Consumed(Tick)
        => /\ app' = app
           /\ tasks' = tasks
           /\ searches' = searches
           /\ process' = process
           /\ disk' = disk ]_vars

\* C28 witness: in Editing mode, with one character typed, its search task in
\* flight and the market status received, a Tick is at the head of the
\* channel, before the Enter the user has pressed.
C28_Witness ==
    /\ app.input_mode = "Editing"
    /\ app.input = <<"a">>
    /\ searches = << <<"a">> >>
    /\ app.market_status # None
    /\ chan = <<Tick, Input(Key(<<"Enter">>))>>

\* The configuration file that holds the watchlist and the credential of a.
FileOf(a) ==
    Some(<<"json", [stocks |-> <<"array", a.stocks>>,
                    api_key |-> IF a.api_key = None THEN <<"null">>
                                ELSE <<"string", a.api_key[1]>>]>>)

\* C29: shutdown ordering. Once a quit signal ('q' in Normal mode, Escape in
\* KeyEntry mode) has set should_quit, the main loop applies no further
\* event: the process is no longer running and its App stays as it is. The
\* process exits through the quit path only with the watchlist and the
\* credential of that moment written by save_config.
C29_QuitSavesBeforeExit ==
    [][ /\ (process = "running" /\ app'.should_quit) => process' # "running"
        /\ (process # "starting" /\ app # None /\ app.should_quit) => app' = app
        /\ (process = "running" /\ process' = "exited")
            => /\ app'.should_quit
               /\ disk' = FileOf(app') ]_vars

\* C29 witness: the program was started without a usable local file on the
\* watchlist [Q] and the credential of the central file, and the user pressed
\* 'q' in Normal mode; the process has exited and the local file holds that
\* watchlist and credential.
C29_Witness ==
    /\ process = "exited"
    /\ app.should_quit
    /\ app.input_mode = "Normal"
    /\ app.stocks = <<Sym("Q")>>
    /\ app.api_key = Some(<<"c">>)
    /\ disk = FileOf(app)

\* C30: the input listener forwards every terminal event it reads into the
\* channel exactly once and the main loop receives them in the order they
\* were read, whatever Tick, market-status and fetch-result events are
\* interleaved: no keystroke is dropped, duplicated, coalesced or reordered.
\* Every step leaves the channel as it is, adds one event at its end, or
\* removes the event at its head, which the main loop then handles.
C30_InputDeliveredOnceInOrder ==
    [][ \/ chan' = chan
        \/ /\ Len(chan') = Len(chan) + 1
           /\ SubSeq(chan', 1, Len(chan)) = chan
        \/ /\ chan # <<>>
           /\ chan' = Tail(chan)
           /\ \E save_ok \in BOOLEAN :
                 app' = on_event(app, Head(chan), save_ok).app ]_vars

\* C30 witness: on a first run the user typed 'a' and Enter in KeyEntry mode;
\* the character was handled before the Enter, which committed it as the
\* credential, while a market status came through the channel and a Tick and
\* the next key wait in it.
C30_Witness ==
    /\ process = "running"
    /\ IsOk(loaded) /\ loaded[1][2].api_key = None
    /\ app.api_key = Some(<<"a">>)
    /\ app.input_mode = "Normal"
    /\ app.market_status # None
    /\ chan = <<Tick, Input(Key(<<"Down">>))>>

\* The orderings of n entries, for every length of an array.
Orderings ==
    [n \in 0..MaxQuotes |->
        {p \in [1..n -> 1..n] : \A i, j \in 1..n : p[i] = p[j] => i = j}]

\* The price the array gives for a symbol: that of its entry for the symbol,
\* 0 if the entry has none or the array has no such entry.
PriceOf(results, symbol) ==
    LET hits == {i \in 1..Len(results) : results[i].symbol = symbol}
    IN  IF hits = {} THEN 0
        ELSE LET price == results[CHOOSE i \in hits : TRUE].regular_market_price
             IN  IF price = None THEN 0 ELSE price[1]

\* The yields of the array by instrument identifier.
YieldsBySymbol(results) ==
    [yield_10y |-> PriceOf(results, "^TNX"),
     yield_5y |-> PriceOf(results, "^FVX"),
     yield_3m |-> PriceOf(results, "^IRX")]

\* C31: fetch_market_status maps the batch response to the 10-year, 5-year
\* and 3-month yields by the symbol of each entry: the MarketStatus it sends
\* for a received array is the one the symbols name, and it is the same for
\* every ordering of the entries of that array.
C31_YieldsMatchedBySymbol ==
    [][ quotes' # quotes
        => LET results == quotes'[1]
           IN  /\ chan' = Append(chan, MarketFetched(Ok(YieldsBySymbol(results))))
               /\ \A p \in Orderings[Len(results)] :
                     map_yields([i \in 1..Len(results) |-> results[p[i]]])
                        = YieldsBySymbol(results) ]_vars

\* C31 witness: the array came with the 3-month entry first, an entry of
\* another symbol second and the 10-year entry, without a price, last; the
\* main loop has stored the status mapped from it.
C31_Witness ==
    /\ quotes = Some(<< [symbol |-> "^IRX", regular_market_price |-> Some(1)],
                        [symbol |-> "^VIX", regular_market_price |-> Some(1)],
                        [symbol |-> "^TNX", regular_market_price |-> None] >>)
    /\ app.market_status = Some([yield_10y |-> 0, yield_5y |-> 0, yield_3m |-> 1])
    /\ chan = <<>>

\* The head of the channel, a QuoteFetched event, is consumed.
QuoteConsumed ==
    /\ Running
    /\ chan # <<>>
    /\ Head(chan)[1] = "QuoteFetched"
    /\ chan' = Tail(chan)

\* C32: the displayed quote is replaced only by a successful QuoteFetched
\* event, with the quote the event carries. Confirming a selection, which
\* starts a new fetch, does not clear current_quote, and a failed quote fetch
\* leaves current_quote at its previous value and sets an error message.
C32_QuoteReplacedOnlyBySuccess ==
    [][ /\ app'.current_quote # app.current_quote
            => /\ QuoteConsumed
               /\ Head(chan)[3][1] = "Ok"
               /\ app'.current_quote = Some(Head(chan)[3][2])
        /\ Pressed("Enter") => app'.current_quote = app.current_quote
        /\ (QuoteConsumed /\ Head(chan)[3][1] = "Err")
            => /\ app'.current_quote = app.current_quote
               /\ app'.message = <<"Error", Head(chan)[3][2]>>
               /\ app'.message_color = "Red" ]_vars

\* C32 witness: on [A, Q] the quote of A was fetched; the user moved to Q and
\* confirmed, and the quote fetch for Q failed: the quote of A is still the
\* displayed one, under the error message.
C32_Witness ==
    /\ app.stocks = <<Sym("A"), Sym("Q")>>
    /\ app.state = Some(1)
    /\ app.current_quote = Some(QuoteOf(Sym("A")))
    /\ app.message[1] = "Error"
    /\ \E i \in 1..Len(tasks) : tasks[i].symbol = Sym("Q") /\ tasks[i].step = 1

\* The input events waiting in a channel.
InputsIn(ch) == Cardinality({i \in 1..Len(ch) : ch[i][1] = "Input"})

\* The main loop handles the k-th event of the scripted session.
KeyHandled(k) ==
    /\ Running
    /\ typed - InputsIn(chan) = k - 1
    /\ typed' - InputsIn(chan') = k

TypedKey == <<"a", "b", "c", "1", "2", "3">>
AAPL == <<"A", "A", "P", "L">>

\* What the first run does up to the added symbol, given the watchlist and
\* the cursor that the claim expects after the Enter that adds "aapl".
FirstRunSteps(watchlist, cursor) ==
    /\ StartStep => (process' = "running" /\ app'.input_mode = "KeyEntry")
    /\ KeyHandled(7)
        => /\ app'.api_key = Some(TypedKey)
           /\ app'.input_mode = "Normal"
           /\ \/ disk' = FileOf(app')
              \/ app'.message = <<"Failed to save config">>
    /\ KeyHandled(13)
        => /\ app'.stocks = watchlist
           /\ app'.state = Some(cursor)
           /\ app'.input_mode = "Normal"
           /\ tasks' = Append(tasks, [symbol |-> AAPL, step |-> 0])
    /\ Consumed(QuoteFetched(AAPL, Ok(QuoteOf(AAPL))))
        => app'.current_quote = Some(QuoteOf(AAPL))

\* C33 as stated: end-to-end first run. Starting from an empty local
\* configuration the application enters KeyEntry; typing "abc123" and Enter
\* persists the credential and makes the mode Normal; then 'a', "aapl" and
\* Enter make the watchlist exactly ["AAPL"] with selection 0 and spawn the
\* fetch task; a following successful quote event sets the displayed quote.
C33_FirstRunWatchlistIsNewSymbol ==
    [][ FirstRunSteps(<<AAPL>>, 0) ]_vars

\* C33 amended: the same run, where the watchlist after the Enter is the
\* five default symbols followed by "AAPL", with the selection on the new
\* symbol at index 5.
C33_FirstRunAppendsToDefaults ==
    [][ FirstRunSteps(Append(DefaultStocks, AAPL), Len(DefaultStocks)) ]_vars

\* C33 witness: the whole session was typed and handled and the quote of
\* AAPL has arrived; the file is the one written when the key was committed.
C33_Witness ==
    /\ process = "running"
    /\ typed = Len(FirstRunScript)
    /\ app.api_key = Some(TypedKey)
    /\ app.stocks = Append(DefaultStocks, AAPL)
    /\ app.state = Some(5)
    /\ app.current_quote = Some(QuoteOf(AAPL))
    /\ disk = FileOf([stocks |-> DefaultStocks, api_key |-> Some(TypedKey)])

\* C34: the main loop never waits on a fetch. While on-demand, search and
\* market-status fetches are pending or failing, every input event that has
\* been put in the channel is eventually received and handled, as long as
\* the process runs: again and again no input event is left waiting in the
\* channel.
C34_InputEventuallyHandled ==
    []<>(~Running \/ InputsIn(chan) = 0)

\* C34 witness: the whole session has been handled, the last key (Up, which
\* wraps the cursor from 1 to 0 on [A, Q]) included, while the two fetch tasks
\* and a search task have not returned yet.
C34_Witness ==
    /\ Running
    /\ typed = Len(AvailableScript)
    /\ chan = <<>>
    /\ app.stocks = <<Sym("A"), Sym("Q")>>
    /\ app.state = Some(0)
    /\ app.input_mode = "Normal"
    /\ Len(tasks) = 2 /\ tasks[1].step = 0 /\ tasks[2].step = 0
    /\ searches # <<>>

\* C35: until quit, the heartbeat keeps emitting Tick events for ever, so
\* the main loop receives a Tick, and with it runs the render pass at the top
\* of its next turn, infinitely often, even when no input and no fetch result
\* ever arrives.
C35_TicksKeepTheLoopTurning ==
    []<>(~Running) \/ []<><<Consumed(Tick)>>_vars

\* C35 witness: nothing has been typed and no fetch result has arrived; the
\* application is as App::new built it and two Ticks wait in the channel.
C35_Witness ==
    /\ Running
    /\ IsOk(loaded)
    /\ app = App_new(loaded[1][2], <<"Ready">>, "Gray", None)
    /\ chan = <<Tick, Tick>>

C37_EnterCursorInBounds ==
    [][ (EnterTurn /\ app.state # None)
        => /\ app.state[1] \in 0..(Len(app.stocks) - 1)
           /\ process' # "panicked" ]_vars

\* The main loop consumes the given key in Editing mode.
EditingKeyConsumed(code) ==
    /\ app.input_mode = "Editing"
    /\ Consumed(Input(Key(<<code>>)))

\* The search cursor moved by the given number of places, modulo the number of
\* results; with no results it stays unset.
SearchCursorMoved(by) ==
    IF app.search_results = <<>> THEN app'.search_state = None
    ELSE app'.search_state =
            <<(app.search_state[1] + by) % Len(app.search_results)>>

\* C38: in every reachable state the search cursor is unset exactly when
\* search_results is empty and is otherwise a valid index into
\* search_results; Down and Up in Editing mode move it one place forward and
\* back with wrap-around modulo the number of results, change no result, and
\* never touch the watchlist cursor.
C38_SearchCursorValidAndWraps ==
    /\ []( /\ app.search_state = None <=> app.search_results = <<>>
           /\ app.search_state # None
                => app.search_state[1] \in 0..(Len(app.search_results) - 1) )
    /\ [][ /\ EditingKeyConsumed("Down")
              => SearchCursorMoved(1) /\ app'.state = app.state
                    /\ app'.search_results = app.search_results
           /\ EditingKeyConsumed("Up")
              => SearchCursorMoved(Len(app.search_results) - 1)
                    /\ app'.state = app.state
                    /\ app'.search_results = app.search_results ]_vars

\* C38 witness: two results are listed, the search cursor has been moved to
\* the last of them, and the Down key that wraps it to the first is the next
\* event of the main loop.
C38_Witness ==
    /\ Running
    /\ app.input_mode = "Editing"
    /\ Len(app.search_results) = 2
    /\ app.search_state = <<1>>
    /\ chan # <<>>
    /\ Head(chan) = Input(Key(<<"Down">>))

\* C39: the lock of the crumb cache is released on every exit path of
\* get_yahoo_crumb (cache hit, handshake success, handshake failure): a
\* caller that returns does not hold it, and the lock is held only by a
\* caller between its lock and its return. So, provided every request is
\* answered, every concurrent caller eventually returns a token or an error;
\* none waits for ever on the lock.
C39_LockReleasedAndCallersReturn ==
    /\ [](lock # None
            => pc[lock[1]] \in {"check", "warmup", "getcrumb", "text"})
    /\ [][\A t \in Callers :
            (pc[t] # "idle" /\ pc'[t] = "idle")
                => (lock' # <<t>> /\ ret'[t] # None)]_vars
    /\ \A t \in Callers :
            (pc[t] # "idle") ~> (pc[t] = "idle" /\ ret[t] # None)

\* C39 witness: one caller has returned an error from a failed handshake, a
\* second holds the lock in a handshake of its own, and a third waits for
\* the lock.
C39_Witness ==
    \E t, u, v \in Callers :
        /\ pc[t] = "lock"
        /\ lock = <<u>> /\ pc[u] = "text"
        /\ pc[v] = "idle" /\ IsErr(ret[v])

====
